---- MODULE Spec2Model ----
(***************************************************************************)
(* Client-side Kerberos v5 reply processing of gokrb5:                     *)
(*   - client.SendToKDC / sendUDP / sendTCP / checkForKRBError             *)
(*   - messages.ASRep / messages.TGSRep: Unmarshal, DecryptEncPart, IsValid*)
(* Octet strings are sequences of naturals below 256.  A Go error value is *)
(* a record [kind, code]; kind "nil" is the nil error.                     *)
(***************************************************************************)
EXTENDS Integers, Sequences, FiniteSets, TLC

VARIABLES
    cfg,      \* cl.Config of the client (immutable during a call)
    pc,       \* position of the caller: "idle", "waiting" (inside SendToKDC, in a
              \* network operation) or "returned"
    ret,      \* what the last SendToKDC call handed back (or that it panicked)
    netlog,   \* socket events of the current or last SendToKDC call, in order
    call,     \* the inputs of the last SendToKDC call
    rep,      \* a reply object: [type, f], f the KDCRepFields of an ASRep or TGSRep
    out,      \* what the last method call on rep handed back
    inp,      \* the inputs of the last method call on rep
    wire,     \* the last framing of a request length: [len, prefix]
    decrypted \* history: a DecryptEncPart call on rep has succeeded since the
              \* last successful Unmarshal

vars == <<cfg, pc, ret, netlog, call, rep, out, inp, wire, decrypted>>

----------------------------------------------------------------------------
(* Bounds of the model *)
MaxReqLen == 3          \* longest request handed to SendToKDC
MaxNonce == 1           \* nonces are 0..MaxNonce
Now0 == 1000            \* the reading of the clock during the calls, in seconds
MaxTick == 1            \* seconds the clock may advance during one IsValid call
Skew0 == 300            \* LibDefaults.Clockskew of the configurations, in seconds

----------------------------------------------------------------------------
(* Program constants *)
KRB_ERR_RESPONSE_TOO_BIG == 52
KDC_ERR_C_PRINCIPAL_UNKNOWN == 6
UDPBufSize == 4096
TCPBufSize == 4096
KRBErrorAppTag == 126    \* 0x7E: constructed APPLICATION 30, the KRB-ERROR tag
ASRepAppTag == 107       \* 0x6B: constructed APPLICATION 11

----------------------------------------------------------------------------
(* Generic helpers *)
Min(a, b) == IF a < b THEN a ELSE b

\* Go's s[:n] for n <= len(s)
Take(s, n) == SubSeq(s, 1, Min(n, Len(s)))

\* Go's s[n:] for n <= len(s)
Drop(s, n) == SubSeq(s, n + 1, Len(s))

----------------------------------------------------------------------------
(* Error values *)
Nil == [kind |-> "nil", code |-> 0]

\* fmt.Errorf / errors.New with the given message class
Errorf(msg) == [kind |-> msg, code |-> 0]

\* a messages.KRBError used as an error value
KRBErr(c) == [kind |-> "KRBError", code |-> c]

----------------------------------------------------------------------------
(* messages.KRBError.Unmarshal: the octets decode as a KRB-ERROR exactly   *)
(* when they carry the KRB-ERROR application tag; the error code follows.  *)
KRBErrorUnmarshal(b) ==
    IF Len(b) >= 2 /\ b[1] = KRBErrorAppTag
    THEN [ok |-> TRUE, ErrorCode |-> b[2]]
    ELSE [ok |-> FALSE, ErrorCode |-> 0]

checkForKRBError(b) ==
    LET u == KRBErrorUnmarshal(b)
    IN IF u.ok THEN [r |-> b, err |-> KRBErr(u.ErrorCode)]
               ELSE [r |-> b, err |-> Nil]

----------------------------------------------------------------------------
(* Socket events of one attempt, in order: "call" (the send function is   *)
(* entered), "open" (the dial succeeded), "write", "read" or "readerr",    *)
(* "close" (the deferred conn.Close).                                      *)
Ev(proto, ev, data) == [proto |-> proto, ev |-> ev, data |-> data]

\* len(b) is a Go int, 64 bits wide on the platforms the client is built
\* for.  A length is written here as its eight octets, most significant
\* first, so that lengths of 2^31 and above can be framed as well.
IntOctets(n) ==
    << 0, 0, 0, 0,
       (n \div 16777216) % 256, (n \div 65536) % 256, (n \div 256) % 256, n % 256 >>

\* uint32(len(b)): the conversion keeps the low 32 bits of the int
Uint32(d) == SubSeq(d, 5, 8)

\* binary.Write(&buf, binary.BigEndian, uint32(n)): the four octets of
\* uint32(n), most significant first
PutUint32(n) == Uint32(IntOctets(n))

\* no request has been framed
NoWire == [len |-> IntOctets(0), prefix |-> Uint32(IntOctets(0))]

\* a send function without the deferred Close
Deferred_none(proto) == <<>>

\* lines 94 and 120: "defer conn.Close()" runs when the function is left,
\* by a return or by a panic
Deferred(proto) == << Ev(proto, "close", <<>>) >>

(* sendUDP.  o is what the network does to this attempt:                   *)
(*   o.stage = "resolve" | "dial" | "write" | "read" : the step that fails *)
(*   o.stage = "ok" : a datagram o.data is read                            *)
(*   for "read" o.data are the octets ReadFrom delivered with its error    *)
sendUDP(kdc, b, o) ==
    LET r == Take(o.data, UDPBufSize)
        called == << Ev("udp", "call", <<>>) >>
        opened == called \o << Ev("udp", "open", <<>>) >>
        failed == << Ev("udp", "readerr", r) >>
        closed == Deferred("udp")
        wrote  == << Ev("udp", "write", b) >>
        read   == << Ev("udp", "read", r) >>
    IN CASE o.stage = "resolve" ->
              [r |-> <<>>, err |-> Errorf("Error resolving KDC address"),
               panic |-> FALSE, log |-> called]
         [] o.stage = "dial" ->
              [r |-> <<>>, err |-> Errorf("Error establishing connection to KDC"),
               panic |-> FALSE, log |-> called]
         [] o.stage = "write" ->
              [r |-> <<>>, err |-> Errorf("Error sending to KDC"),
               panic |-> FALSE, log |-> opened \o wrote \o closed]
         [] o.stage = "read" ->
              [r |-> r, err |-> Errorf("Sending over UDP failed"),
               panic |-> FALSE, log |-> opened \o wrote \o failed \o closed]
         [] OTHER ->
              LET c == checkForKRBError(r)
              IN [r |-> c.r, err |-> c.err,
                  panic |-> FALSE, log |-> opened \o wrote \o read \o closed]

(* sendTCP.  o as for sendUDP; for "ok", o.data are the octets the single  *)
(* conn.Read call delivers (length prefix included).  r[4:] panics when    *)
(* fewer than 4 octets were read.                                          *)
sendTCP(kdc, b, o) ==
    LET framed == PutUint32(Len(b)) \o b
        r == Take(o.data, TCPBufSize)
        called == << Ev("tcp", "call", <<>>) >>
        opened == called \o << Ev("tcp", "open", <<>>) >>
        failed == << Ev("tcp", "readerr", <<>>) >>
        closed == Deferred("tcp")
        wrote  == << Ev("tcp", "write", framed) >>
        read   == << Ev("tcp", "read", r) >>
    IN CASE o.stage = "resolve" ->
              [r |-> <<>>, err |-> Errorf("Error resolving KDC address"),
               panic |-> FALSE, log |-> called]
         [] o.stage = "dial" ->
              [r |-> <<>>, err |-> Errorf("Error establishing connection to KDC"),
               panic |-> FALSE, log |-> called]
         [] o.stage = "write" ->
              [r |-> <<>>, err |-> Errorf("Error sending to KDC"),
               panic |-> FALSE, log |-> opened \o wrote \o closed]
         [] o.stage = "read" ->
              [r |-> <<>>, err |-> Errorf("Sending over TCP failed"),
               panic |-> FALSE, log |-> opened \o wrote \o failed \o closed]
         [] OTHER ->
              IF Len(r) < 4
              THEN [r |-> <<>>, err |-> Nil,
                    panic |-> TRUE, log |-> opened \o wrote \o read \o closed]
              ELSE LET c == checkForKRBError(Drop(r, 4))
                   IN [r |-> c.r, err |-> c.err,
                       panic |-> FALSE, log |-> opened \o wrote \o read \o closed]

----------------------------------------------------------------------------
(* Client.SendToKDC *)

\* the loop over cl.Config.Realms: the Kdc list of the first realm named
\* Default_realm, nil when there is none
RECURSIVE KdcsFrom(_, _, _)
KdcsFrom(realms, default, i) ==
    IF i > Len(realms) THEN <<>>
    ELSE IF realms[i].Realm = default THEN realms[i].Kdc
    ELSE KdcsFrom(realms, default, i + 1)

SelectKdcs(c) == KdcsFrom(c.Realms, c.Default_realm, 1)

\* a returned pair (rb, err); exit names the return statement taken
Return(rb, err, exit, log) ==
    [rb |-> rb, err |-> err, panic |-> FALSE, exit |-> exit, log |-> log]

Panicked(log) ==
    [rb |-> <<>>, err |-> Nil, panic |-> TRUE, exit |-> "panic", log |-> log]

\* Finish without the emptiness test
Finish_noEmptyTest(rb, log) ==
    LET c == checkForKRBError(rb) IN Return(c.r, c.err, "classified", log)

\* lines 64-67 and 77-80 (and 41-44): the emptiness test and the classifier
Finish(rb, log) ==
    IF Len(rb) < 1
    THEN Return(rb, Errorf("No response data from KDC"), "noresponse", log)
    ELSE LET c == checkForKRBError(rb) IN Return(c.r, c.err, "classified", log)

\* lines 69-80: rb of line 70 is the function's rb; the rb of line 72 is a
\* new variable of its block
TCPFirst(kdc, b, env) ==
    LET t == sendTCP(kdc, b, env.tcp[1])
        u == sendUDP(kdc, b, env.udp)
    IN IF t.panic THEN Panicked(t.log)
       ELSE IF t.err # Nil
       THEN IF u.err # Nil
            THEN Return(u.r, Errorf("Failed to communicate with KDC via TCP and then via UDP"),
                        "bothfail", t.log \o u.log)
            ELSE Finish(t.r, t.log \o u.log)
       ELSE Finish(t.r, t.log)

\* TCPOnly falling back to UDP when the TCP attempt fails
TCPOnly_withFallback(kdc, b, env) == TCPFirst(kdc, b, env)

\* lines 35-45
TCPOnly(kdc, b, env) ==
    LET t == sendTCP(kdc, b, env.tcp[1])
    IN IF t.panic THEN Panicked(t.log)
       ELSE IF t.err # Nil
       THEN Return(t.r, Errorf("Failed to communicate with KDC via TDP"), "tcpfail", t.log)
       ELSE Finish(t.r, t.log)

\* lines 46-68: rb of line 48 is the buffer of the UDP attempt; the rb of
\* lines 50 and 58 are new variables of their own blocks
UDPFirst(kdc, b, env) ==
    LET u  == sendUDP(kdc, b, env.udp)
        t1 == sendTCP(kdc, b, env.tcp[1])
        fellBack == u.err # Nil
        log1 == IF fellBack THEN u.log \o t1.log ELSE u.log
        k  == KRBErrorUnmarshal(u.r)
        t2 == sendTCP(kdc, b, IF fellBack THEN env.tcp[2] ELSE env.tcp[1])
    IN IF fellBack /\ t1.panic THEN Panicked(log1)
       ELSE IF fellBack /\ t1.err # Nil
       THEN Return(t1.r, Errorf("Failed to communicate with KDC via UDP and then via TDP"),
                   "bothfail", log1)
       ELSE IF k.ok /\ k.ErrorCode = KRB_ERR_RESPONSE_TOO_BIG
       THEN IF t2.panic THEN Panicked(log1 \o t2.log)
            ELSE IF t2.err # Nil
            THEN Return(t2.r, Errorf("Response too big for UDP and errored when using TCP"),
                        "toobigfail", log1 \o t2.log)
            ELSE Finish(u.r, log1 \o t2.log)
       ELSE Finish(u.r, log1)

\* pick is the value of rand.Intn(len(kdcs))
SendToKDC(c, b, pick, env) ==
    LET kdcs == SelectKdcs(c)
        kdc  == IF Len(kdcs) > 1 THEN kdcs[pick + 1] ELSE kdcs[1]
    IN IF Len(kdcs) < 1
       THEN Return(<<>>, Errorf("No KDCs defined in configuration for realm"), "nokdc", <<>>)
       ELSE IF c.Udp_preference_limit = 1 THEN TCPOnly(kdc, b, env)
       ELSE IF Len(b) <= c.Udp_preference_limit THEN UDPFirst(kdc, b, env)
       ELSE TCPFirst(kdc, b, env)

----------------------------------------------------------------------------
(* Inputs of the transport model *)

ReqOfLen(n) == [i \in 1..n |-> 48 + i]
Requests == { ReqOfLen(n) : n \in 0..MaxReqLen }

ErrorCodes == { KDC_ERR_C_PRINCIPAL_UNKNOWN, KRB_ERR_RESPONSE_TOO_BIG }
KRBErrorBytes(c) == << KRBErrorAppTag, c >>

\* what a KDC may put in a reply: nothing, a KRB-ERROR, a reply message
Payloads == { <<>>, << ASRepAppTag, 1 >>, << ASRepAppTag, 2 >> }
            \cup { KRBErrorBytes(c) : c \in ErrorCodes }

Frame(p) == PutUint32(Len(p)) \o p

UDPOutcomes ==
    { [stage |-> s, data |-> <<>>] : s \in {"resolve", "dial", "write"} }
    \cup { [stage |-> s, data |-> p] : s \in {"read", "ok"}, p \in Payloads }

\* a TCP read delivers a whole frame or only its first octets
TCPOutcomes ==
    { [stage |-> s, data |-> <<>>] : s \in {"resolve", "dial", "write", "read"} }
    \cup { [stage |-> "ok", data |-> Frame(p)] : p \in Payloads }
    \cup { [stage |-> "ok", data |-> Take(Frame(p), 2)] : p \in Payloads }
    \cup { [stage |-> "ok", data |-> Take(Frame(<< ASRepAppTag, 1 >>), 5)] }

Envs == { [udp |-> u, tcp |-> <<t1, t2>>] :
             u \in UDPOutcomes, t1 \in TCPOutcomes, t2 \in TCPOutcomes }

RealmLists ==
    { <<>>,
      << [Realm |-> "OTHER.COM", Kdc |-> <<"kdc.other.com:88">>] >>,
      << [Realm |-> "EXAMPLE.COM", Kdc |-> <<>>] >>,
      << [Realm |-> "EXAMPLE.COM", Kdc |-> <<"kdc1.example.com:88">>] >>,
      << [Realm |-> "OTHER.COM", Kdc |-> <<"kdc.other.com:88">>],
         [Realm |-> "EXAMPLE.COM", Kdc |-> <<"kdc1.example.com:88", "kdc2.example.com:88">>] >> }

Configs ==
    { [Default_realm |-> "EXAMPLE.COM", Realms |-> rl, Udp_preference_limit |-> l,
       Clockskew |-> Skew0] :
         rl \in RealmLists, l \in 0..MaxReqLen }

NoCall == [b |-> <<>>, pick |-> 0, env |-> [udp |-> [stage |-> "resolve", data |-> <<>>],
            tcp |-> << [stage |-> "resolve", data |-> <<>>], [stage |-> "resolve", data |-> <<>>] >>]]
NoRet == [rb |-> <<>>, err |-> Nil, panic |-> FALSE, exit |-> "none"]


----------------------------------------------------------------------------
(* KDC replies: package messages                                           *)
(*                                                                         *)
(* A types.PrincipalName is [NameType, NameString, IsNil]: IsNil tells the *)
(* nil slice from the empty one (both have length 0).  Times are seconds.  *)
(* An encoded message is the abstract DER value [tag, MsgType, ...]; a     *)
(* cipher text is [key, usage, plain] and opens under that key and usage.  *)

\* Program constants of the reply processing
asnAppTag_ASREP == 11
asnAppTag_TGSREP == 13
asnAppTag_EncASRepPart == 25
asnAppTag_EncTGSRepPart == 26
asnAppTag_KRBError == 30
KRB_AS_REP == 11
KRB_TGS_REP == 13
PA_FX_FAST == 136
PA_REQ_ENC_PA_REP == 149
EncPARep == 15
AS_REP_ENCPART == 8
TGS_REP_ENCPART_SESSION_KEY == 8
KEY_USAGE_AS_REQ == 56

Name(t, s) == [NameType |-> t, NameString |-> s, IsNil |-> FALSE]
NilName(t) == [NameType |-> t, NameString |-> <<>>, IsNil |-> TRUE]

\* zero values of the Go types
ZeroKey == [KeyType |-> 0, KeyValue |-> <<>>]
ZeroTime == 0
ZeroEncKDCRepPart ==
    [Key |-> ZeroKey, Nonce |-> 0, Flags |-> {}, AuthTime |-> ZeroTime,
     StartTime |-> ZeroTime, SRealm |-> "", SName |-> NilName(0),
     CAddr |-> <<>>, EncPAData |-> <<>>]
ZeroTicket == [ok |-> TRUE, Realm |-> "", SName |-> NilName(0)]
ZeroEncryptedData ==
    [EType |-> 0, KVNO |-> 0,
     Cipher |-> [key |-> <<>>, usage |-> 0,
                 plain |-> [tag |-> 0, part |-> ZeroEncKDCRepPart]]]
ZeroKDCRepFields ==
    [PVNO |-> 0, MsgType |-> 0, PAData |-> <<>>, CRealm |-> "", CName |-> NilName(0),
     Ticket |-> ZeroTicket, EncPart |-> ZeroEncryptedData,
     DecryptedEncPart |-> ZeroEncKDCRepPart]

\* types.PADataSequence.Contains
RECURSIVE ContainsFrom(_, _, _)
ContainsFrom(pas, patype, i) ==
    IF i > Len(pas) THEN FALSE
    ELSE IF pas[i].PADataType = patype THEN TRUE
    ELSE ContainsFrom(pas, patype, i + 1)

Contains(pas, patype) == ContainsFrom(pas, patype, 1)

\* types.IsFlagSet
IsFlagSet(flags, bit) == bit \in flags

\* types.HostAddressesEqual(h, a): equal lengths and every address of a
\* occurs in h
HostAddressesEqual(h, a) ==
    /\ Len(h) = Len(a)
    /\ \A i \in 1..Len(a) : \E j \in 1..Len(h) : h[j] = a[i]

\* credentials.Credentials.HasKeytab / HasPassword
HasKeytab(c) == c.Keytab # {}
HasPassword(c) == c.Password # ""

\* keytab.Keytab.GetEncryptionKey: the key of the entry for the principal,
\* realm, kvno and etype
GetEncryptionKey(kt, nameString, realm, kvno, etype) ==
    LET hits == { e \in kt : /\ e.Principal = nameString /\ e.Realm = realm
                              /\ e.KVNO = kvno /\ e.Key.KeyType = etype }
    IN IF hits = {}
       THEN [key |-> ZeroKey, err |-> Errorf("Matching key not found in keytab")]
       ELSE [key |-> (CHOOSE e \in hits : TRUE).Key, err |-> Nil]

\* the salt crypto.GetKeyFromPassword takes: the one the pre-authentication
\* data carry, else the default salt realm ++ name components
RECURSIVE SaltFrom(_, _)
SaltFrom(pas, i) ==
    IF i > Len(pas) THEN <<>>
    ELSE IF pas[i].PADataValue.salt # <<>> THEN pas[i].PADataValue.salt
    ELSE SaltFrom(pas, i + 1)

SupportedETypes == {17, 18}

\* crypto.GetKeyFromPassword: string-to-key of the password and the salt
GetKeyFromPassword(password, cname, realm, etype, pas) ==
    LET given == SaltFrom(pas, 1)
        salt == IF given # <<>> THEN given ELSE <<realm>> \o cname.NameString
    IN IF etype \in SupportedETypes
       THEN [key |-> [KeyType |-> etype, KeyValue |-> <<"s2k", password>> \o salt],
             err |-> Nil]
       ELSE [key |-> ZeroKey, err |-> Errorf("Unknown or unsupported EType")]

\* crypto.DecryptEncPart: the plain text when key and usage are those of
\* the cipher text
CryptoDecryptEncPart(ed, key, usage) ==
    IF key.KeyType = ed.EType /\ key.KeyValue = ed.Cipher.key /\ usage = ed.Cipher.usage
    THEN [b |-> ed.Cipher.plain, err |-> Nil]
    ELSE [b |-> [tag |-> 0, part |-> ZeroEncKDCRepPart], err |-> Errorf("Error decrypting")]

\* asn1.UnmarshalWithParams(b, e, ...) into the receiver e (lines 293, 302):
\* the decoder writes the fields the encoding carries and leaves an
\* OPTIONAL field the encoding omits as it is in e (lines 221, 226, 227;
\* an omitted field is the zero value of the encoded part p)
DecodeInto(e, p) ==
    [p EXCEPT !.StartTime = IF p.StartTime = ZeroTime THEN e.StartTime ELSE p.StartTime,
              !.CAddr = IF p.CAddr = <<>> THEN e.CAddr ELSE p.CAddr,
              !.EncPAData = IF p.EncPAData = <<>> THEN e.EncPAData ELSE p.EncPAData]

\* EncKDCRepPart.Unmarshal on the receiver e: decode under tag 25, else
\* under tag 26; a tag that does not match leaves e as it is
EncKDCRepPartUnmarshal(e, b) ==
    IF b.tag = asnAppTag_EncASRepPart THEN [part |-> DecodeInto(e, b.part), err |-> Nil]
    ELSE IF b.tag = asnAppTag_EncTGSRepPart THEN [part |-> DecodeInto(e, b.part), err |-> Nil]
    ELSE [part |-> e, err |-> Errorf("asn1: tags don't match")]

\* ASReq.Marshal: the encoding determines the request
ASReqMarshal(req) == [tag |-> 10, body |-> req]

\* the checksum the crypto library computes over data under key and usage
Checksum(keyvalue, data, usage) == [key |-> keyvalue, data |-> data, usage |-> usage]

\* engine.VerifyChecksum
VerifyChecksum(keyvalue, chksum, data, usage, etype) ==
    chksum = Checksum(keyvalue, data, usage)

\* crypto.GetChksumEtype
SupportedChksumTypes == {16}
GetChksumEtypeOk(chksumType) == chksumType \in SupportedChksumTypes

----------------------------------------------------------------------------
(* Methods of ASRep and TGSRep.  Each yields                               *)
(*   valid, err : the returned values (valid is FALSE where the method     *)
(*                returns only an error)                                   *)
(*   panic      : the call aborted with an index out of range              *)
(*   trace      : the checks evaluated, in order                           *)
(*   key        : the key DecryptEncPart handed to the crypto library      *)
(*   k          : the receiver's KDCRepFields after the call               *)
Res(valid, err, panic, trace, key, k) ==
    [valid |-> valid, err |-> err, panic |-> panic, trace |-> trace, key |-> key, k |-> k]

\* processReplyError: a KRB-ERROR in place of the reply is the error
processReplyError(b) ==
    IF b.tag = asnAppTag_KRBError THEN KRBErr(b.code)
    ELSE Errorf("asn1: structure error")

\* an Unmarshal without the msg_type test
Unmarshal_noMsgTypeTest(k, b, appTag, msgType) ==
    IF b.tag # appTag
    THEN Res(FALSE, processReplyError(b), FALSE, <<"decode">>, ZeroKey, k)
    ELSE IF ~b.m.Ticket.ok
    THEN Res(FALSE, Errorf("Error unmarshalling Ticket"), FALSE,
             <<"decode", "ticket">>, ZeroKey, k)
    ELSE Res(TRUE, Nil, FALSE, <<"decode", "ticket">>, ZeroKey,
             [PVNO |-> b.m.PVNO, MsgType |-> b.m.MsgType, PAData |-> b.m.PAData,
              CRealm |-> b.m.CRealm, CName |-> b.m.CName, Ticket |-> b.m.Ticket,
              EncPart |-> b.m.EncPart, DecryptedEncPart |-> ZeroEncKDCRepPart])

\* an Unmarshal that keeps the DecryptedEncPart of the receiver
Unmarshal_keepsDecrypted(k, b, appTag, msgType) ==
    IF b.tag # appTag
    THEN Res(FALSE, processReplyError(b), FALSE, <<"decode">>, ZeroKey, k)
    ELSE IF b.m.MsgType # msgType
    THEN Res(FALSE, Errorf("Message ID does not indicate the expected reply"), FALSE,
             <<"decode", "msgtype">>, ZeroKey, k)
    ELSE IF ~b.m.Ticket.ok
    THEN Res(FALSE, Errorf("Error unmarshalling Ticket"), FALSE,
             <<"decode", "msgtype", "ticket">>, ZeroKey, k)
    ELSE Res(TRUE, Nil, FALSE, <<"decode", "msgtype", "ticket">>, ZeroKey,
             [PVNO |-> b.m.PVNO, MsgType |-> b.m.MsgType, PAData |-> b.m.PAData,
              CRealm |-> b.m.CRealm, CName |-> b.m.CName, Ticket |-> b.m.Ticket,
              EncPart |-> b.m.EncPart, DecryptedEncPart |-> k.DecryptedEncPart])

\* lines 238-262 and 265-289; appTag and msgType are those of the receiver
Unmarshal(k, b, appTag, msgType) ==
    IF b.tag # appTag
    THEN Res(FALSE, processReplyError(b), FALSE, <<"decode">>, ZeroKey, k)
    ELSE IF b.m.MsgType # msgType
    THEN Res(FALSE, Errorf("Message ID does not indicate the expected reply"), FALSE,
             <<"decode", "msgtype">>, ZeroKey, k)
    ELSE IF ~b.m.Ticket.ok
    THEN Res(FALSE, Errorf("Error unmarshalling Ticket"), FALSE,
             <<"decode", "msgtype", "ticket">>, ZeroKey, k)
    ELSE Res(TRUE, Nil, FALSE, <<"decode", "msgtype", "ticket">>, ZeroKey,
             [PVNO |-> b.m.PVNO, MsgType |-> b.m.MsgType, PAData |-> b.m.PAData,
              CRealm |-> b.m.CRealm, CName |-> b.m.CName, Ticket |-> b.m.Ticket,
              EncPart |-> b.m.EncPart, DecryptedEncPart |-> ZeroEncKDCRepPart])

ASRepUnmarshal(k, b) == Unmarshal(k, b, asnAppTag_ASREP, KRB_AS_REP)
TGSRepUnmarshal(k, b) == Unmarshal(k, b, asnAppTag_TGSREP, KRB_TGS_REP)

\* a DecryptEncPart that clears the stored part when it fails
DecryptWith_clearsOnFailure(k, key, usage, trace) ==
    LET d == CryptoDecryptEncPart(k.EncPart, key, usage)
        u == EncKDCRepPartUnmarshal(ZeroEncKDCRepPart, d.b)
    IN IF d.err # Nil
       THEN Res(FALSE, Errorf("Error decrypting KDC_REP EncPart"), FALSE,
                trace \o <<"decrypt">>, key, [k EXCEPT !.DecryptedEncPart = ZeroEncKDCRepPart])
       ELSE IF u.err # Nil
       THEN Res(FALSE, Errorf("Error unmarshalling encrypted part"), FALSE,
                trace \o <<"decrypt", "decodeenc">>, key,
                [k EXCEPT !.DecryptedEncPart = ZeroEncKDCRepPart])
       ELSE Res(TRUE, Nil, FALSE, trace \o <<"decrypt", "decodeenc">>, key,
                [k EXCEPT !.DecryptedEncPart = u.part])

\* lines 327-337 and 409-419: decrypt, decode into a fresh denc, store
DecryptWith(k, key, usage, trace) ==
    LET d == CryptoDecryptEncPart(k.EncPart, key, usage)
        u == EncKDCRepPartUnmarshal(ZeroEncKDCRepPart, d.b)
    IN IF d.err # Nil
       THEN Res(FALSE, Errorf("Error decrypting KDC_REP EncPart"), FALSE,
                trace \o <<"decrypt">>, key, k)
       ELSE IF u.err # Nil
       THEN Res(FALSE, Errorf("Error unmarshalling encrypted part"), FALSE,
                trace \o <<"decrypt", "decodeenc">>, key, k)
       ELSE Res(TRUE, Nil, FALSE, trace \o <<"decrypt", "decodeenc">>, key,
                [k EXCEPT !.DecryptedEncPart = u.part])

\* lines 310-326: the key of ASRep.DecryptEncPart
ASRepSelectKey(k, c) ==
    LET kt == GetEncryptionKey(c.Keytab, k.CName.NameString, k.CRealm,
                               k.EncPart.KVNO, k.EncPart.EType)
        pw == GetKeyFromPassword(c.Password, k.CName, k.CRealm, k.EncPart.EType, k.PAData)
        t1 == IF HasKeytab(c) THEN <<"keytab">> ELSE <<>>
        k1 == IF HasKeytab(c) THEN kt.key ELSE ZeroKey
        t2 == IF HasPassword(c) THEN t1 \o <<"password">> ELSE t1
    IN IF HasKeytab(c) /\ kt.err # Nil
       THEN [key |-> kt.key, err |-> Errorf("Could not get key from keytab"), trace |-> t1]
       ELSE IF HasPassword(c) /\ pw.err # Nil
       THEN [key |-> pw.key, err |-> Errorf("Could not derive key from password"),
             trace |-> t2]
       ELSE IF ~HasKeytab(c) /\ ~HasPassword(c)
       THEN [key |-> k1,
             err |-> Errorf("No secret available in credentials to preform decryption"),
             trace |-> t2]
       ELSE [key |-> IF HasPassword(c) THEN pw.key ELSE k1, err |-> Nil, trace |-> t2]

\* lines 309-338
ASRepDecryptEncPart(k, c) ==
    LET sel == ASRepSelectKey(k, c)
    IN IF sel.err # Nil THEN Res(FALSE, sel.err, FALSE, sel.trace, sel.key, k)
       ELSE DecryptWith(k, sel.key, AS_REP_ENCPART, sel.trace)

\* lines 408-420
TGSRepDecryptEncPart(k, key) ==
    DecryptWith(k, key, TGS_REP_ENCPART_SESSION_KEY, <<>>)

\* "for i := range <n elements> { if x[i] != y[i] {...} }": "mismatch" at the
\* first differing index, "panic" when an index is out of range, else "ok"
RECURSIVE RangeCompare(_, _, _, _)
RangeCompare(n, x, y, i) ==
    IF i > n THEN "ok"
    ELSE IF i > Len(x) \/ i > Len(y) THEN "panic"
    ELSE IF x[i] # y[i] THEN "mismatch"
    ELSE RangeCompare(n, x, y, i + 1)

\* lines 343 and 424
CNameHeadOk(k, req) ==
    ~(k.CName.NameType # req.ReqBody.CName.NameType \/ k.CName.IsNil)

\* lines 346-350 and 427-431
CNameLoop(k, req) ==
    RangeCompare(Len(k.CName.NameString), k.CName.NameString,
                 req.ReqBody.CName.NameString, 1)

\* lines 351 and 432
CRealmOk(k, req) == k.CRealm = req.ReqBody.Realm

\* the nonce test left out
NonceOk_skipped(k, req) == TRUE

\* lines 358 and 435
NonceOk(k, req) == k.DecryptedEncPart.Nonce = req.ReqBody.Nonce

\* lines 438-445 (TGSRep only)
TicketSNameHeadOk(k, req) ==
    ~(k.Ticket.SName.NameType # req.ReqBody.SName.NameType \/ k.Ticket.SName.IsNil)

TicketSNameLoop(k, req) ==
    RangeCompare(Len(k.Ticket.SName.NameString), k.Ticket.SName.NameString,
                 req.ReqBody.SName.NameString, 1)

\* lines 361 and 446
SNameHeadOk(k, req) ==
    ~(k.DecryptedEncPart.SName.NameType # req.ReqBody.SName.NameType
      \/ k.DecryptedEncPart.SName.IsNil)

\* lines 364-368 and 449-453: the loop ranges over k.CName.NameString
SNameLoop(k, req) ==
    RangeCompare(Len(k.CName.NameString), k.DecryptedEncPart.SName.NameString,
                 req.ReqBody.SName.NameString, 1)

\* lines 369 and 454
SRealmOk(k, req) == k.DecryptedEncPart.SRealm = req.ReqBody.Realm

\* lines 372-376 and 457-461
AddressesOk(k, req) ==
    Len(req.ReqBody.Addresses) > 0
        => HostAddressesEqual(k.DecryptedEncPart.CAddr, req.ReqBody.Addresses)

\* one time is outside the tolerance around now
OutsideSkew(t, now, c) == now - t > c.Clockskew \/ t - now > c.Clockskew

\* lines 462 and 463: "time.Since(t) > skew || t.Sub(time.Now().UTC()) > skew"
\* reads the clock once on each side; n1 and n2 are the two readings
OutsideSkewReads(t, n1, n2, c) == n1 - t > c.Clockskew \/ t - n2 > c.Clockskew

\* lines 386-402: the loop over the encrypted PA-Data
RECURSIVE FastLoop(_, _, _, _)
FastLoop(pas, i, key, asReq) ==
    IF i > Len(pas) THEN Nil
    ELSE IF pas[i].PADataType # PA_REQ_ENC_PA_REP THEN FastLoop(pas, i + 1, key, asReq)
    ELSE IF ~pas[i].PADataValue.ok
    THEN Errorf("KDC FAST negotiation response error, could not unmarshal PA_REQ_ENC_PA_REP")
    ELSE IF ~GetChksumEtypeOk(pas[i].PADataValue.ChksumType)
    THEN Errorf("KDC FAST negotiation response error")
    ELSE IF ~VerifyChecksum(key.KeyValue, pas[i].PADataValue.Chksum, ASReqMarshal(asReq),
                            KEY_USAGE_AS_REQ, pas[i].PADataValue.ChksumType)
    THEN Errorf("KDC FAST negotiation response checksum invalid")
    ELSE FastLoop(pas, i + 1, key, asReq)

\* lines 382-403
FastCheck(k, key, asReq) ==
    IF Contains(asReq.PAData, PA_REQ_ENC_PA_REP) /\ IsFlagSet(k.DecryptedEncPart.Flags, EncPARep)
    THEN IF Len(k.DecryptedEncPart.EncPAData) < 2
            \/ ~Contains(k.DecryptedEncPart.EncPAData, PA_FX_FAST)
         THEN Errorf("KDC did not respond appropriately to FAST negotiation")
         ELSE FastLoop(k.DecryptedEncPart.EncPAData, 1, key, asReq)
    ELSE Nil

Invalid(msg, trace, key, k) == Res(FALSE, Errorf(msg), FALSE, trace, key, k)
Abort(trace, key, k) == Res(FALSE, Nil, TRUE, trace, key, k)

\* lines 358-404: ASRep.IsValid after the decryption; k holds the decrypted part
ASRepCheckDecrypted(k, c, asReq, now, key, tr) ==
    LET sl == SNameLoop(k, asReq)
        fast == FastCheck(k, key, asReq)
    IN IF ~NonceOk(k, asReq)
       THEN Invalid("Possible replay attack, nonce in response does not match that in request",
                    tr \o <<"nonce">>, key, k)
       ELSE IF ~SNameHeadOk(k, asReq)
       THEN Invalid("SName in response does not match what was requested",
                    tr \o <<"nonce", "sname">>, key, k)
       ELSE IF sl = "panic" THEN Abort(tr \o <<"nonce", "sname">>, key, k)
       ELSE IF sl = "mismatch"
       THEN Invalid("SName in response does not match what was requested",
                    tr \o <<"nonce", "sname">>, key, k)
       ELSE IF ~SRealmOk(k, asReq)
       THEN Invalid("SRealm in response does not match what was requested",
                    tr \o <<"nonce", "sname", "srealm">>, key, k)
       ELSE IF ~AddressesOk(k, asReq)
       THEN Invalid("Addresses listed in the AS_REP does not match those listed in the AS_REQ",
                    tr \o <<"nonce", "sname", "srealm", "addresses">>, key, k)
       ELSE IF OutsideSkew(k.DecryptedEncPart.AuthTime, now, c)
       THEN Invalid("Clock skew with KDC too large",
                    tr \o <<"nonce", "sname", "srealm", "addresses", "skew">>, key, k)
       ELSE IF fast # Nil
       THEN Res(FALSE, fast, FALSE,
                tr \o <<"nonce", "sname", "srealm", "addresses", "skew", "fast">>, key, k)
       ELSE Res(TRUE, Nil, FALSE,
                tr \o <<"nonce", "sname", "srealm", "addresses", "skew", "fast">>, key, k)

\* lines 341-405
ASRepIsValid(k, c, creds, asReq, now) ==
    LET cl == CNameLoop(k, asReq)
        d == ASRepDecryptEncPart(k, creds)
    IN IF ~CNameHeadOk(k, asReq)
       THEN Invalid("CName in response does not match what was requested",
                    <<"cname">>, ZeroKey, k)
       ELSE IF cl = "panic" THEN Abort(<<"cname">>, ZeroKey, k)
       ELSE IF cl = "mismatch"
       THEN Invalid("CName in response does not match what was requested",
                    <<"cname">>, ZeroKey, k)
       ELSE IF ~CRealmOk(k, asReq)
       THEN Invalid("CRealm in response does not match what was requested",
                    <<"cname", "crealm">>, ZeroKey, k)
       ELSE IF d.err # Nil
       THEN Invalid("Error decrypting EncPart of AS_REP",
                    <<"cname", "crealm">> \o d.trace, d.key, d.k)
       ELSE ASRepCheckDecrypted(d.k, c, asReq, now, d.key, <<"cname", "crealm">> \o d.trace)

\* lines 423-468; the decrypted part is the one a DecryptEncPart call left;
\* now is the sequence of the four clock readings of lines 462-463
TGSRepIsValid(k, c, tgsReq, now) ==
    LET cl == CNameLoop(k, tgsReq)
        tl == TicketSNameLoop(k, tgsReq)
        sl == SNameLoop(k, tgsReq)
        key == ZeroKey
    IN IF ~CNameHeadOk(k, tgsReq)
       THEN Invalid("CName in response does not match what was requested",
                    <<"cname">>, key, k)
       ELSE IF cl = "panic" THEN Abort(<<"cname">>, key, k)
       ELSE IF cl = "mismatch"
       THEN Invalid("CName in response does not match what was requested",
                    <<"cname">>, key, k)
       ELSE IF ~CRealmOk(k, tgsReq)
       THEN Invalid("CRealm in response does not match what was requested",
                    <<"cname", "crealm">>, key, k)
       ELSE IF ~NonceOk(k, tgsReq)
       THEN Invalid("Possible replay attack, nonce in response does not match that in request",
                    <<"cname", "crealm", "nonce">>, key, k)
       ELSE IF ~TicketSNameHeadOk(k, tgsReq)
       THEN Invalid("SName in response ticket does not match what was requested",
                    <<"cname", "crealm", "nonce", "ticketsname">>, key, k)
       ELSE IF tl = "panic" THEN Abort(<<"cname", "crealm", "nonce", "ticketsname">>, key, k)
       ELSE IF tl = "mismatch"
       THEN Invalid("SName in response ticket does not match what was requested",
                    <<"cname", "crealm", "nonce", "ticketsname">>, key, k)
       ELSE IF ~SNameHeadOk(k, tgsReq)
       THEN Invalid("SName in response does not match what was requested",
                    <<"cname", "crealm", "nonce", "ticketsname", "sname">>, key, k)
       ELSE IF sl = "panic"
       THEN Abort(<<"cname", "crealm", "nonce", "ticketsname", "sname">>, key, k)
       ELSE IF sl = "mismatch"
       THEN Invalid("SName in response does not match what was requested",
                    <<"cname", "crealm", "nonce", "ticketsname", "sname">>, key, k)
       ELSE IF ~SRealmOk(k, tgsReq)
       THEN Invalid("SRealm in response does not match what was requested",
                    <<"cname", "crealm", "nonce", "ticketsname", "sname", "srealm">>, key, k)
       ELSE IF ~AddressesOk(k, tgsReq)
       THEN Invalid("Addresses listed in the TGS_REP does not match those listed in the TGS_REQ",
                    <<"cname", "crealm", "nonce", "ticketsname", "sname", "srealm",
                      "addresses">>, key, k)
       ELSE IF /\ OutsideSkewReads(k.DecryptedEncPart.StartTime, now[1], now[2], c)
               /\ OutsideSkewReads(k.DecryptedEncPart.AuthTime, now[3], now[4], c)
       THEN Invalid("Clock skew with KDC too large",
                    <<"cname", "crealm", "nonce", "ticketsname", "sname", "srealm",
                      "addresses", "skew">>, key, k)
       ELSE Res(TRUE, Nil, FALSE,
                <<"cname", "crealm", "nonce", "ticketsname", "sname", "srealm",
                  "addresses", "skew">>, key, k)

----------------------------------------------------------------------------
(* Inputs of the reply model: the replies a KDC (or an attacker on the     *)
(* wire) may send to the request of alice@EXAMPLE.COM for the ticket       *)
(* granting service, the requests, and the credentials of the client.      *)

Realm0 == "EXAMPLE.COM"
Alice == Name(1, <<"alice">>)
Krbtgt == Name(2, <<"krbtgt", "EXAMPLE.COM">>)

PA(t) ==
    [PADataType |-> t,
     PADataValue |-> [salt |-> <<>>, ok |-> FALSE, ChksumType |-> 0,
                      Chksum |-> Checksum(<<>>, <<>>, 0)]]

\* a PA_REQ_ENC_PA_REP entry carrying a types.PAReqEncPARep
PARep(ok, chksumType, chk) ==
    [PADataType |-> PA_REQ_ENC_PA_REP,
     PADataValue |-> [salt |-> <<>>, ok |-> ok, ChksumType |-> chksumType, Chksum |-> chk]]

Req(cname, sname, nonce, addrs, pas) ==
    [PAData |-> pas,
     ReqBody |-> [CName |-> cname, Realm |-> Realm0, SName |-> sname,
                  Nonce |-> nonce, Addresses |-> addrs]]

Nonces == 0..MaxNonce
ReqCNames == { Alice, Name(1, <<"alice", "admin">>), NilName(1) }
ReqSNames == { Krbtgt, Name(2, <<"krbtgt">>) }
AddressLists == { <<>>, <<"10.0.0.1">>, <<"10.0.0.1", "10.0.0.2">> }

\* the request that advertises PA_REQ_ENC_PA_REP
FastReq(n) == Req(Alice, Krbtgt, n, <<>>, << PA(PA_REQ_ENC_PA_REP) >>)

Reqs ==
    { Req(c, sn, n, <<>>, <<>>) : c \in ReqCNames, sn \in ReqSNames, n \in Nonces }
    \cup { Req(Alice, Krbtgt, n, a, <<>>) : n \in Nonces, a \in AddressLists }
    \cup { FastReq(n) : n \in Nonces }

\* keys
KeytabKey == [KeyType |-> 18, KeyValue |-> <<"kt", "alice", "1">>]
PasswordKey == GetKeyFromPassword("secret", Alice, Realm0, 18, <<>>).key
TGTSessionKey == [KeyType |-> 18, KeyValue |-> <<"session", "tgt">>]
NewSessionKey == [KeyType |-> 18, KeyValue |-> <<"session", "new">>]

KeytabEntry(principal, key) ==
    [Principal |-> principal, Realm |-> Realm0, KVNO |-> 1, Key |-> key]

Creds(kt, pw) == [Keytab |-> kt, Password |-> pw]

CredsSet ==
    { Creds({}, ""),
      Creds({KeytabEntry(<<"alice">>, KeytabKey)}, ""),
      Creds({KeytabEntry(<<"bob">>, KeytabKey)}, ""),
      Creds({}, "secret"),
      Creds({}, "wrong"),
      Creds({KeytabEntry(<<"alice">>, KeytabKey)}, "secret"),
      Creds({KeytabEntry(<<"bob">>, KeytabKey)}, "secret") }

TGSKeys == { TGTSessionKey, KeytabKey }

\* the keys a reply of the given type is encrypted under
EncKeys(type) == IF type = "ASRep" THEN { KeytabKey, PasswordKey } ELSE { TGTSessionKey }

\* the encrypted part an honest KDC sends for nonce n
Part0(n) ==
    [Key |-> NewSessionKey, Nonce |-> n, Flags |-> {}, AuthTime |-> Now0,
     StartTime |-> Now0, SRealm |-> Realm0, SName |-> Krbtgt,
     CAddr |-> <<>>, EncPAData |-> <<>>]

\* the encoded reply of the given type with the given parts
Msg(type, msgType, cname, crealm, tktName, tktOk, key, ptag, part) ==
    [tag |-> IF type = "ASRep" THEN asnAppTag_ASREP ELSE asnAppTag_TGSREP,
     code |-> 0,
     m |-> [PVNO |-> 5, MsgType |-> msgType, PAData |-> <<>>, CRealm |-> crealm,
            CName |-> cname,
            Ticket |-> [ok |-> tktOk, Realm |-> Realm0, SName |-> tktName],
            EncPart |-> [EType |-> key.KeyType, KVNO |-> 1,
                         Cipher |-> [key |-> key.KeyValue,
                                     usage |-> IF type = "ASRep" THEN AS_REP_ENCPART
                                               ELSE TGS_REP_ENCPART_SESSION_KEY,
                                     plain |-> [tag |-> ptag, part |-> part]]]]]

MsgTypeOf(type) == IF type = "ASRep" THEN KRB_AS_REP ELSE KRB_TGS_REP

\* the honest reply
Msg0(type, key, part) ==
    Msg(type, MsgTypeOf(type), Alice, Realm0, Krbtgt, TRUE, key, asnAppTag_EncASRepPart, part)

\* a KRB-ERROR sent in place of a reply
ErrorMsg(c) == [tag |-> asnAppTag_KRBError, code |-> c, m |-> Msg0("ASRep", KeytabKey, Part0(0)).m]

RepCNames ==
    { Alice, Name(1, <<"alice", "admin">>), Name(1, <<>>), NilName(1),
      Name(2, <<"alice">>), Name(1, <<"bob">>) }
RepSNames ==
    { Krbtgt, Name(2, <<"krbtgt", "OTHER.COM">>), Name(2, <<"krbtgt">>), NilName(2),
      Name(1, <<"krbtgt", "EXAMPLE.COM">>) }
TicketSNames == { Krbtgt, Name(2, <<"krbtgt">>), Name(2, <<"krbtgt", "OTHER.COM">>) }
RepRealms == { Realm0, "OTHER.COM" }
Times == { Now0 - Skew0 - 1, Now0 - Skew0, Now0, Now0 + Skew0, Now0 + Skew0 + 1 }
StartTimes == { ZeroTime, Now0, Now0 + Skew0, Now0 + Skew0 + 1 }

\* the encrypted PA-Data a reply may carry for the request FastReq(n)
EncPADataSet(key, n) ==
    LET good == Checksum(key.KeyValue, ASReqMarshal(FastReq(n)), KEY_USAGE_AS_REQ)
        bad  == Checksum(key.KeyValue, ASReqMarshal(FastReq(n)), 0)
    IN { <<>>,
         << PA(PA_FX_FAST) >>,
         << PA(PA_FX_FAST), PARep(TRUE, 16, good) >>,
         << PA(PA_FX_FAST), PARep(TRUE, 16, bad) >>,
         << PA(PA_FX_FAST), PARep(FALSE, 16, good) >>,
         << PA(PA_FX_FAST), PARep(TRUE, 99, good) >>,
         << PA(PA_FX_FAST), PA(PA_FX_FAST) >>,
         << PARep(TRUE, 16, good), PARep(TRUE, 16, good) >> }

\* the key of the replies that do not vary the key
Key0(type) == IF type = "ASRep" THEN KeytabKey ELSE TGTSessionKey

Msgs(type) ==
    \* names
    { Msg(type, MsgTypeOf(type), c, Realm0, Krbtgt, TRUE, Key0(type), asnAppTag_EncASRepPart,
          [Part0(0) EXCEPT !.SName = sn]) : c \in RepCNames, sn \in RepSNames }
    \cup
    { Msg(type, MsgTypeOf(type), Alice, Realm0, tn, TRUE, Key0(type), asnAppTag_EncASRepPart,
          Part0(0)) : tn \in TicketSNames }
    \cup \* nonces and realms
    { Msg(type, MsgTypeOf(type), Alice, cr, Krbtgt, TRUE, Key0(type), asnAppTag_EncASRepPart,
          [Part0(n) EXCEPT !.SRealm = sr]) :
        cr \in RepRealms, sr \in RepRealms, n \in Nonces }
    \cup \* the key and the tag of the encrypted part
    { Msg(type, MsgTypeOf(type), Alice, Realm0, Krbtgt, TRUE, key, ptag, Part0(n)) :
        ptag \in {asnAppTag_EncASRepPart, asnAppTag_EncTGSRepPart, 0},
        key \in EncKeys(type), n \in Nonces }
    \cup \* FAST negotiation
    UNION { { Msg0(type, key, [Part0(0) EXCEPT !.Flags = fl, !.EncPAData = e]) :
                e \in EncPADataSet(key, 0), fl \in { {}, {EncPARep} } } :
            key \in EncKeys(type) }
    \cup \* times and addresses
    { Msg0(type, Key0(type), [Part0(0) EXCEPT !.AuthTime = at, !.StartTime = st]) :
        at \in Times, st \in StartTimes }
    \cup
    { Msg0(type, Key0(type), [Part0(0) EXCEPT !.CAddr = a]) :
        a \in AddressLists \cup { <<"10.0.0.2", "10.0.0.1">> } }
    \cup \* the envelope
    { Msg(type, mt, Alice, Realm0, Krbtgt, ok, Key0(type), asnAppTag_EncASRepPart, Part0(0)) :
        mt \in {KRB_AS_REP, KRB_TGS_REP}, ok \in BOOLEAN }

OtherType(type) == IF type = "ASRep" THEN "TGSRep" ELSE "ASRep"

\* what may be handed to Unmarshal of a reply of the given type
WireMsgs(type) ==
    Msgs(type)
    \cup { Msg0(OtherType(type), Key0(OtherType(type)), Part0(0)) }
    \cup { ErrorMsg(c) : c \in ErrorCodes }

----------------------------------------------------------------------------
(* The reply object as a state machine: a caller applies Unmarshal,        *)
(* DecryptEncPart and IsValid to one ASRep or one TGSRep, and              *)
(* EncKDCRepPart.Unmarshal to its DecryptedEncPart, in any order.          *)

NoReq == Req(NilName(0), NilName(0), 0, <<>>, <<>>)
NoMsg == [tag |-> 0, code |-> 0, m |-> Msg0("ASRep", ZeroKey, ZeroEncKDCRepPart).m]
NoPlain == [tag |-> 0, part |-> ZeroEncKDCRepPart]
NoInp == [b |-> NoMsg, creds |-> Creds({}, ""), req |-> NoReq, key |-> ZeroKey, now |-> <<>>,
          plain |-> NoPlain]
NoOut == [op |-> "none", valid |-> FALSE, err |-> Nil, panic |-> FALSE,
          trace |-> <<>>, key |-> ZeroKey]

Out(op, res) ==
    [op |-> op, valid |-> res.valid, err |-> res.err, panic |-> res.panic,
     trace |-> res.trace, key |-> res.key]

RepConfig ==
    [Default_realm |-> Realm0, Realms |-> <<>>, Udp_preference_limit |-> 1,
     Clockskew |-> Skew0]

NetIdle == /\ ret = NoRet /\ netlog = <<>> /\ call = NoCall /\ wire = NoWire
RepIdle ==
    /\ rep = [type |-> "ASRep", f |-> ZeroKDCRepFields] /\ out = NoOut /\ inp = NoInp
    /\ decrypted = FALSE

InitRep ==
    /\ cfg = RepConfig
    /\ pc = "idle"
    /\ NetIdle
    /\ rep \in { [type |-> t, f |-> ZeroKDCRepFields] : t \in {"ASRep", "TGSRep"} }
    /\ out = NoOut
    /\ inp = NoInp
    /\ decrypted = FALSE

\* the history of the calls: cleared by a successful Unmarshal, set by a
\* successful DecryptEncPart
DecryptedAfter(op, res) ==
    IF op = "Unmarshal" /\ res.err = Nil THEN FALSE
    ELSE IF op = "DecryptEncPart" /\ res.err = Nil THEN TRUE
    ELSE decrypted

Done(op, res, in) ==
    /\ rep' = [rep EXCEPT !.f = res.k]
    /\ decrypted' = DecryptedAfter(op, res)
    /\ out' = Out(op, res)
    /\ inp' = in
    /\ pc' = "returned"
    /\ UNCHANGED <<cfg, ret, netlog, call, wire>>

CallASRepUnmarshal ==
    /\ pc = "idle" /\ rep.type = "ASRep"
    /\ \E b \in WireMsgs("ASRep") :
         Done("Unmarshal", ASRepUnmarshal(rep.f, b), [NoInp EXCEPT !.b = b])

CallTGSRepUnmarshal ==
    /\ pc = "idle" /\ rep.type = "TGSRep"
    /\ \E b \in WireMsgs("TGSRep") :
         Done("Unmarshal", TGSRepUnmarshal(rep.f, b), [NoInp EXCEPT !.b = b])

CallASRepDecryptEncPart ==
    /\ pc = "idle" /\ rep.type = "ASRep"
    /\ \E c \in CredsSet :
         Done("DecryptEncPart", ASRepDecryptEncPart(rep.f, c), [NoInp EXCEPT !.creds = c])

CallTGSRepDecryptEncPart ==
    /\ pc = "idle" /\ rep.type = "TGSRep"
    /\ \E key \in TGSKeys :
         Done("DecryptEncPart", TGSRepDecryptEncPart(rep.f, key), [NoInp EXCEPT !.key = key])

\* encoded encrypted parts a caller may hold in the clear
PlainParts ==
    { [tag |-> t, part |-> Part0(n)] :
        t \in {asnAppTag_EncASRepPart, asnAppTag_EncTGSRepPart, 0}, n \in Nonces }
    \cup { [tag |-> asnAppTag_EncASRepPart, part |-> [Part0(0) EXCEPT !.CAddr = <<"10.0.0.1">>]],
           [tag |-> asnAppTag_EncASRepPart, part |-> [Part0(0) EXCEPT !.StartTime = ZeroTime]] }

\* lines 292-306 applied to the exported field of the reply object,
\* k.DecryptedEncPart.Unmarshal(b): the decoder writes its receiver
CallEncKDCRepPartUnmarshal ==
    /\ pc = "idle"
    /\ \E b \in PlainParts :
         LET u == EncKDCRepPartUnmarshal(rep.f.DecryptedEncPart, b)
             k == [rep.f EXCEPT !.DecryptedEncPart = u.part]
         IN Done("EncKDCRepPart.Unmarshal", Res(FALSE, u.err, FALSE, <<"decodeenc">>, ZeroKey, k),
                 [NoInp EXCEPT !.plain = b])

\* n readings of a clock that stands at Now0 when the call starts and
\* advances by at most MaxTick during the call
ClockReads(n) ==
    { clk \in [1..n -> Now0..(Now0 + MaxTick)] : \A i \in 1..(n - 1) : clk[i] <= clk[i + 1] }

CallASRepIsValid ==
    /\ pc = "idle" /\ rep.type = "ASRep"
    /\ \E c \in CredsSet, req \in Reqs :
         Done("IsValid", ASRepIsValid(rep.f, cfg, c, req, Now0),
              [NoInp EXCEPT !.creds = c, !.req = req, !.now = <<Now0>>])

CallTGSRepIsValid ==
    /\ pc = "idle" /\ rep.type = "TGSRep"
    /\ \E req \in Reqs, clk \in ClockReads(4) :
         Done("IsValid", TGSRepIsValid(rep.f, cfg, req, clk),
              [NoInp EXCEPT !.req = req, !.now = clk])

\* the caller takes the result and is ready for the next call
NextRepCall ==
    /\ pc = "returned"
    /\ pc' = "idle"
    /\ out' = NoOut
    /\ inp' = NoInp
    /\ UNCHANGED <<cfg, ret, netlog, call, rep, wire, decrypted>>

NextRep ==
    \/ CallASRepUnmarshal \/ CallTGSRepUnmarshal
    \/ CallASRepDecryptEncPart \/ CallTGSRepDecryptEncPart
    \/ CallASRepIsValid \/ CallTGSRepIsValid
    \/ CallEncKDCRepPartUnmarshal
    \/ NextRepCall

SpecRep == InitRep /\ [][NextRep]_vars

\* one TGSRep under calls of its own three methods only
InitTGS == InitRep /\ rep.type = "TGSRep"

NextTGS ==
    \/ CallTGSRepUnmarshal \/ CallTGSRepDecryptEncPart \/ CallTGSRepIsValid
    \/ NextRepCall

SpecTGS == InitTGS /\ [][NextTGS]_vars

----------------------------------------------------------------------------
(* The transport as a state machine: a caller issues SendToKDC calls one   *)
(* after the other on a client whose configuration is fixed.               *)

InitNet ==
    /\ cfg \in Configs
    /\ pc = "idle"
    /\ ret = NoRet
    /\ netlog = <<>>
    /\ call = NoCall
    /\ wire = NoWire
    /\ RepIdle

\* the events after which the goroutine waits for the network: "call"
\* (resolving and dialling, lines 86-90 and 112-116), "open" (conn.Write,
\* lines 96, 139), "write" (conn.ReadFrom, line 101; conn.Read, line 144)
BlockingEvents == {"call", "open", "write"}

\* the positions after position n at which the call waits
StopsAfter(log, n) == { i \in (n + 1)..Len(log) : log[i].ev \in BlockingEvents }

\* a call that has got through the first n events of its log runs on to its
\* next wait, or to its end when it does not wait again
RunOn(res, n) ==
    LET S == StopsAfter(res.log, n)
    IN IF S = {}
       THEN /\ netlog' = res.log
            /\ ret' = [rb |-> res.rb, err |-> res.err, panic |-> res.panic, exit |-> res.exit]
            /\ pc' = "returned"
       ELSE /\ netlog' = Take(res.log, CHOOSE i \in S : \A j \in S : i <= j)
            /\ ret' = NoRet
            /\ pc' = "waiting"

\* SendToKDC is entered and runs to its first wait; what the network will
\* do to the attempts of this call (env) is fixed here and comes to bear
\* wait by wait
CallSendToKDC ==
    /\ pc = "idle"
    /\ \E b \in Requests, env \in Envs :
         \E pick \in 0..(IF Len(SelectKdcs(cfg)) > 1 THEN Len(SelectKdcs(cfg)) - 1 ELSE 0) :
            /\ call' = [b |-> b, pick |-> pick, env |-> env]
            /\ RunOn(SendToKDC(cfg, b, pick, env), 0)
    /\ UNCHANGED <<cfg, rep, out, inp, wire, decrypted>>

\* the network operation the call waits in completes (or fails, or meets
\* its deadline) and the call runs on
ResumeSendToKDC ==
    /\ pc = "waiting"
    /\ RunOn(SendToKDC(cfg, call.b, call.pick, call.env), Len(netlog))
    /\ UNCHANGED <<cfg, call, rep, out, inp, wire, decrypted>>

\* the caller takes the result and is ready for the next call
NextCall ==
    /\ pc = "returned"
    /\ pc' = "idle"
    /\ ret' = NoRet
    /\ netlog' = <<>>
    /\ call' = NoCall
    /\ UNCHANGED <<cfg, rep, out, inp, wire, decrypted>>

NextNet == CallSendToKDC \/ ResumeSendToKDC \/ NextCall

SpecNet == InitNet /\ [][NextNet]_vars

----------------------------------------------------------------------------
(* Properties of the transport *)

Returned == pc = "returned" /\ ~ret.panic

HasKdc == Len(SelectKdcs(cfg)) >= 1

UDPFirstBranch ==
    HasKdc /\ cfg.Udp_preference_limit # 1 /\ Len(call.b) <= cfg.Udp_preference_limit

TCPFirstBranch ==
    HasKdc /\ cfg.Udp_preference_limit # 1 /\ Len(call.b) > cfg.Udp_preference_limit

TCPOnlyBranch == HasKdc /\ cfg.Udp_preference_limit = 1

NetworkError(o) == o.stage \in {"resolve", "dial", "write", "read"}

\* the exchange delivers the whole frame of a payload that is no KRB-ERROR
DeliversReply(o, p) ==
    /\ o.stage = "ok"
    /\ p # <<>>
    /\ ~KRBErrorUnmarshal(p).ok
    /\ o.data = p \/ o.data = Frame(p)

\* number of calls of the send function of a transport in the last call
Attempts(proto) ==
    Cardinality({ i \in 1..Len(netlog) : netlog[i].proto = proto /\ netlog[i].ev = "call" })

\* C1: in the UDP-first branch, when the UDP reply is a KRB-ERROR with code
\* 52 and the TCP exchanges that follow deliver a reply p, SendToKDC
\* returns p, classified from p.
C1_TooBigReturnsTCPPayload ==
    \A p \in Payloads :
        ( /\ pc = "returned"
          /\ UDPFirstBranch
          /\ call.env.udp = [stage |-> "ok", data |-> KRBErrorBytes(KRB_ERR_RESPONSE_TOO_BIG)]
          /\ DeliversReply(call.env.tcp[1], p) /\ call.env.tcp[1].data = Frame(p)
          /\ call.env.tcp[2] = call.env.tcp[1] )
        => ( /\ ~ret.panic
             /\ ret.rb = p
             /\ ret.err = checkForKRBError(p).err )

\* C2: when the first-choice transport fails with a network error and the
\* fallback transport delivers a non-empty reply p, SendToKDC returns p
\* classified by checkForKRBError.
C2_FallbackPayloadReturned ==
    \A p \in Payloads :
        /\ ( /\ pc = "returned"
             /\ UDPFirstBranch
             /\ NetworkError(call.env.udp)
             /\ DeliversReply(call.env.tcp[1], p) /\ call.env.tcp[1].data = Frame(p) )
           => ( ~ret.panic /\ ret.rb = p /\ ret.err = checkForKRBError(p).err )
        /\ ( /\ pc = "returned"
             /\ TCPFirstBranch
             /\ NetworkError(call.env.tcp[1])
             /\ DeliversReply(call.env.udp, p) /\ call.env.udp.data = p )
           => ( ~ret.panic /\ ret.rb = p /\ ret.err = checkForKRBError(p).err )

\* the reply read by the last attempt of the call that got one (for TCP the
\* octets after the length prefix); <<>> when no attempt read a reply
RECURSIVE LastReply(_, _)
LastReply(log, i) ==
    IF i = 0 THEN <<>>
    ELSE IF log[i].ev = "read"
         THEN IF log[i].proto = "tcp" THEN Drop(log[i].data, Min(4, Len(log[i].data)))
              ELSE log[i].data
         ELSE LastReply(log, i - 1)

\* C8: on every path, when the octets finally obtained from the KDC are a
\* KRB-ERROR with a code other than 52, SendToKDC returns these octets
\* with that KRB-ERROR as the error.
C8_KRBErrorSurfacedUnchanged ==
    LET fin == LastReply(netlog, Len(netlog))
        k == KRBErrorUnmarshal(fin)
    IN ( Returned /\ k.ok /\ k.ErrorCode # KRB_ERR_RESPONSE_TOO_BIG )
       => ( ret.rb = fin /\ ret.err = KRBErr(k.ErrorCode) )

\* C9: with udp_preference_limit = 1 (and a KDC configured), whatever the
\* request and whatever the TCP attempt does, the call makes exactly one
\* TCP attempt and no UDP attempt.
C9_TCPOnly ==
    ( pc = "returned" /\ TCPOnlyBranch )
    => ( Attempts("tcp") = 1 /\ Attempts("udp") = 0 )

\* a TCP-only call whose TCP attempt failed with a network error
C9_Witness ==
    /\ pc = "returned" /\ TCPOnlyBranch
    /\ NetworkError(call.env.tcp[1])
    /\ ret.exit = "tcpfail"
    /\ Attempts("tcp") = 1

TransportFailed == ret.exit \in {"tcpfail", "bothfail", "toobigfail"}

\* C10: SendToKDC never returns empty octets with a nil error; when the
\* octets selected at the end of a path are empty the error is the
\* no-response error; with no KDC for the default realm the call fails
\* before any network attempt.
C10_NoEmptySuccess ==
    Returned =>
        /\ ret.rb = <<>> => ret.err # Nil
        /\ ( ret.rb = <<>> /\ HasKdc /\ ~TransportFailed )
             => ret.err = Errorf("No response data from KDC")
        /\ ~HasKdc => ( /\ ret.err = Errorf("No KDCs defined in configuration for realm")
                        /\ netlog = <<>> )

\* a call on the UDP-first path whose transport delivered an empty reply
C10_Witness ==
    /\ Returned /\ UDPFirstBranch
    /\ call.env.udp = [stage |-> "ok", data |-> <<>>]
    /\ ret.rb = <<>>
    /\ ret.err = Errorf("No response data from KDC")

----------------------------------------------------------------------------
(* Properties of the reply validation *)

IsValidReturned == pc = "returned" /\ out.op = "IsValid"

InTrace(x) == \E i \in 1..Len(out.trace) : out.trace[i] = x

\* equality of principal names: same type, both name strings non-null and
\* element-wise equal
NameEquals(a, b) ==
    /\ a.NameType = b.NameType
    /\ ~a.IsNil /\ ~b.IsNil
    /\ Len(a.NameString) = Len(b.NameString)
    /\ \A i \in 1..Len(a.NameString) : a.NameString[i] = b.NameString[i]

\* C3: ASRep.IsValid and TGSRep.IsValid return valid only if the sname of
\* the decrypted part equals the sname of the request (same name type,
\* non-null, same components), whatever the length of cname.
C3_SNameMustMatch ==
    ( IsValidReturned /\ out.valid )
    => NameEquals(rep.f.DecryptedEncPart.SName, inp.req.ReqBody.SName)

\* C4: ASRep.IsValid and TGSRep.IsValid return valid only if the cname of
\* the envelope equals the cname of the request (same name type, both
\* non-null, same length, same components).
C4_CNameMustMatch ==
    ( IsValidReturned /\ out.valid )
    => NameEquals(rep.f.CName, inp.req.ReqBody.CName)

\* C5: when the AS-REQ advertised PA_REQ_ENC_PA_REP and the decrypted reply
\* has EncPARep set, ASRep.IsValid returns valid only if enc_padata holds a
\* PA_FX_FAST entry and a PA_REQ_ENC_PA_REP entry whose checksum verifies
\* over the serialized AS-REQ under the key of the decryption, usage 56.
C5_FastNeedsVerifiedChecksum ==
    LET pas == rep.f.DecryptedEncPart.EncPAData
    IN ( /\ IsValidReturned /\ rep.type = "ASRep" /\ out.valid
         /\ Contains(inp.req.PAData, PA_REQ_ENC_PA_REP)
         /\ IsFlagSet(rep.f.DecryptedEncPart.Flags, EncPARep) )
       => /\ \E i \in 1..Len(pas) : pas[i].PADataType = PA_FX_FAST
          /\ \E i \in 1..Len(pas) :
                /\ pas[i].PADataType = PA_REQ_ENC_PA_REP
                /\ pas[i].PADataValue.ok
                /\ pas[i].PADataValue.Chksum
                      = Checksum(out.key.KeyValue, ASReqMarshal(inp.req), KEY_USAGE_AS_REQ)

\* C6: IsValid of ASRep and of TGSRep is never valid when the nonce of the
\* decrypted part differs from the nonce of the request; when the checks
\* before the nonce test passed, the result is the replay failure.
C6_NonceReplay ==
    ( IsValidReturned /\ rep.f.DecryptedEncPart.Nonce # inp.req.ReqBody.Nonce )
    => /\ ~out.valid
       /\ InTrace("nonce")
            => ( /\ ~out.panic
                 /\ out.err = Errorf("Possible replay attack, nonce in response does not match that in request") )

\* an AS-REP that decrypts and differs from the request in the nonce only
C6_Witness ==
    /\ IsValidReturned /\ rep.type = "ASRep"
    /\ InTrace("decrypt") /\ InTrace("nonce")
    /\ rep.f.DecryptedEncPart = Part0(1)
    /\ inp.req = Req(Alice, Krbtgt, 0, <<>>, <<>>)
    /\ ~out.valid
    /\ out.err = Errorf("Possible replay attack, nonce in response does not match that in request")

\* C7: ASRep.DecryptEncPart takes the key of the keytab when the
\* credentials hold a keytab (failing without decrypting on a miss), the
\* key derived from the password only when they hold no keytab, and fails
\* with the no-secret error, without decrypting, when they hold neither.
C7_KeytabBeforePassword ==
    LET c == inp.creds
        kt == GetEncryptionKey(c.Keytab, rep.f.CName.NameString, rep.f.CRealm,
                               rep.f.EncPart.KVNO, rep.f.EncPart.EType)
    IN ( pc = "returned" /\ out.op = "DecryptEncPart" /\ rep.type = "ASRep" )
       => /\ ( HasKeytab(c) /\ kt.err # Nil )
               => ( out.err = Errorf("Could not get key from keytab") /\ ~InTrace("decrypt") )
          /\ ( HasKeytab(c) /\ kt.err = Nil /\ InTrace("decrypt") ) => out.key = kt.key
          /\ InTrace("password") => ~HasKeytab(c)
          /\ ( ~HasKeytab(c) /\ ~HasPassword(c) )
               => ( /\ out.err = Errorf("No secret available in credentials to preform decryption")
                    /\ ~InTrace("decrypt") )

----------------------------------------------------------------------------
(* Sockets of a SendToKDC call *)

\* number of events ev among the first n events of the log
Count(log, n, ev) == Cardinality({ i \in 1..n : log[i].ev = ev })

\* sockets open after the first n events of the log
OpenAfter(log, n) == Count(log, n, "open") - Count(log, n, "close")

\* C11: every socket sendUDP or sendTCP opens is closed before the function
\* is left, on every exit path (the panic included): at no point of a
\* SendToKDC call is more than one socket open, a send function is entered
\* only with no socket open, and none is open when the call is over.
C11_SocketsClosed ==
    /\ \A n \in 0..Len(netlog) : OpenAfter(netlog, n) \in {0, 1}
    /\ \A n \in 1..Len(netlog) :
          netlog[n].ev = "call" => OpenAfter(netlog, n) = 0
    /\ pc # "waiting" => OpenAfter(netlog, Len(netlog)) = 0

\* a call that opened a UDP socket, fell back to TCP and panicked in sendTCP
C11_Witness ==
    /\ pc = "returned" /\ ret.panic
    /\ Count(netlog, Len(netlog), "open") = 2
    /\ Count(netlog, Len(netlog), "close") = 2
    /\ netlog[Len(netlog)] = Ev("tcp", "close", <<>>)

----------------------------------------------------------------------------
(* Clock skew *)

SkewError == out.err = Errorf("Clock skew with KDC too large")

\* t is no further than the configured clock skew from the instant now
WithinSkew(t, now) == now - cfg.Clockskew <= t /\ t <= now + cfg.Clockskew

\* C12: the clock-skew check is inclusive at the boundary and symmetric.  An
\* IsValid call that reaches the check fails it exactly when, for an AS
\* reply, auth_time is more than clockskew away from now (either side), and,
\* for a TGS reply, both start_time and auth_time are; a time exactly
\* clockskew away passes, one a second further does not, and an absent
\* start_time counts as outside.  now is an instant of the call: for a
\* TGSRep one of the readings of the clock the call takes.
C12_SkewInclusive ==
    (IsValidReturned /\ InTrace("skew")) =>
        LET d == rep.f.DecryptedEncPart
        IN /\ rep.type = "ASRep" => (SkewError <=> ~WithinSkew(d.AuthTime, inp.now[1]))
           /\ rep.type = "TGSRep" =>
                 \E i \in 1..Len(inp.now) :
                    SkewError <=> ( /\ ~WithinSkew(d.StartTime, inp.now[i])
                                    /\ ~WithinSkew(d.AuthTime, inp.now[i]) )
           /\ ~WithinSkew(ZeroTime, inp.now[1])

----------------------------------------------------------------------------
(* The framing step of sendTCP over the whole range of request lengths *)

\* lengths of requests, as the octets of the Go int len(b): up to the
\* lengths of Kerberos messages, around 2^31 and around 2^32
FrameLens ==
    { <<0, 0, 0, a, b, c, d, e>> :
        a \in {0, 1}, b \in {0, 1, 127, 128, 255}, c \in {0, 1, 255},
        d \in {0, 16}, e \in {0, 1, 255} }

InitFrame ==
    /\ cfg = RepConfig
    /\ pc = "idle"
    /\ NetIdle
    /\ RepIdle

\* lines 135-136: the prefix sendTCP puts before a request of length d
CallFrame ==
    /\ pc = "idle"
    /\ \E d \in FrameLens : wire' = [len |-> d, prefix |-> Uint32(d)]
    /\ pc' = "returned"
    /\ UNCHANGED <<cfg, ret, netlog, call, rep, out, inp, decrypted>>

NextFrameCall ==
    /\ pc = "returned"
    /\ pc' = "idle"
    /\ wire' = NoWire
    /\ UNCHANGED <<cfg, ret, netlog, call, rep, out, inp, decrypted>>

NextFrame == CallFrame \/ NextFrameCall

SpecFrame == InitFrame /\ [][NextFrame]_vars

\* C13: the prefix sendTCP writes is the length of the request in four
\* big-endian octets, and its most significant bit is zero for every
\* request the sender transmits.
C13_PrefixHighBitZero ==
    pc = "returned" =>
        /\ wire.len = <<0, 0, 0, 0>> \o wire.prefix
        /\ wire.prefix[1] < 128

----------------------------------------------------------------------------
(* Unmarshal *)

\* this step is a call of op on the reply object
RepCallStep(op) == pc = "idle" /\ pc' = "returned" /\ out'.op = op

\* C14: Unmarshal rejects an envelope whose msg_type is not the one of the
\* receiver (KRB_AS_REP for an ASRep, KRB_TGS_REP for a TGSRep); a rejected
\* Unmarshal leaves the fields of the receiver as they were; so the msg_type
\* a reply object holds is that of its type, or none when it never decoded.
C14_UnmarshalRejects ==
    [][ /\ RepCallStep("Unmarshal") =>
             /\ inp'.b.m.MsgType # MsgTypeOf(rep.type) => out'.err # Nil
             /\ out'.err # Nil => rep' = rep
        /\ rep'.f.MsgType \in {ZeroKDCRepFields.MsgType, MsgTypeOf(rep'.type)}
      ]_vars

\* an ASRep that holds a decoded reply has rejected an envelope with the
\* AS-REP tag and another msg_type
C14_Witness ==
    /\ pc = "returned" /\ out.op = "Unmarshal" /\ rep.type = "ASRep"
    /\ out.trace = <<"decode", "msgtype">> /\ out.err # Nil
    /\ inp.b.m.MsgType = KRB_TGS_REP
    /\ rep.f.MsgType = KRB_AS_REP

----------------------------------------------------------------------------
(* When the second transport is tried *)

\* the attempt read a reply that is a KRB-ERROR; its code
ReadKRBError(o, payload) ==
    o.stage = "ok" /\ KRBErrorUnmarshal(payload).ok

\* C15: in the UDP-first branch a TCP attempt is made only after a network
\* error of the UDP attempt or a UDP reply that is a KRB-ERROR with code 52;
\* a UDP reply that is a KRB-ERROR with another code is returned as the
\* error without a TCP attempt; in the TCP-first branch a KRB-ERROR read
\* over TCP does not lead to a UDP attempt.
C15_FallbackOnlyOnNetworkError ==
    pc = "returned" =>
        /\ ( UDPFirstBranch /\ Attempts("tcp") >= 1 )
             => \/ NetworkError(call.env.udp)
                \/ /\ ReadKRBError(call.env.udp, call.env.udp.data)
                   /\ KRBErrorUnmarshal(call.env.udp.data).ErrorCode = KRB_ERR_RESPONSE_TOO_BIG
        /\ \A c \in ErrorCodes \ {KRB_ERR_RESPONSE_TOO_BIG} :
             ( UDPFirstBranch /\ call.env.udp = [stage |-> "ok", data |-> KRBErrorBytes(c)] )
             => ( Attempts("tcp") = 0 /\ ~ret.panic /\ ret.err = KRBErr(c) )
        /\ ( /\ TCPFirstBranch
             /\ Len(call.env.tcp[1].data) >= 4
             /\ ReadKRBError(call.env.tcp[1], Drop(call.env.tcp[1].data, 4)) )
             => Attempts("udp") = 0

----------------------------------------------------------------------------
(* Order of the checks of ASRep.IsValid *)

\* the predicates of ASRep.IsValid in the documented order
ASChecks == <<"cname", "crealm", "nonce", "sname", "srealm", "addresses", "skew", "fast">>

\* the steps of the decryption
DecryptSteps == {"keytab", "password", "decrypt", "decodeenc"}

IsCheck(x) == x \notin DecryptSteps

\* position of the first decryption step in a trace, 0 when there is none
FirstDecryptStep(tr) ==
    IF \E i \in 1..Len(tr) : tr[i] \in DecryptSteps
    THEN CHOOSE i \in 1..Len(tr) :
            /\ tr[i] \in DecryptSteps
            /\ \A j \in 1..(i - 1) : tr[j] \notin DecryptSteps
    ELSE 0

\* C16: in ASRep.IsValid the predicates are evaluated in the documented
\* order up to the first that fails; the decryption is attempted only after
\* cname and crealm have passed; when it fails the call returns invalid, no
\* predicate after crealm is evaluated and DecryptedEncPart is as before.
C16_ChecksInOrder ==
    [][ ( RepCallStep("IsValid") /\ rep.type = "ASRep" ) =>
          LET tr == out'.trace
              checks == SelectSeq(tr, IsCheck)
              fd == FirstDecryptStep(tr)
          IN /\ checks = Take(ASChecks, Len(checks))
             /\ out'.valid => ( checks = ASChecks /\ out'.err = Nil )
             /\ ( ~out'.valid /\ ~out'.panic ) => out'.err # Nil
             /\ fd # 0 => Take(tr, fd - 1) = <<"cname", "crealm">>
             /\ out'.err = Errorf("Error decrypting EncPart of AS_REP")
                  => /\ ~out'.valid
                     /\ checks = <<"cname", "crealm">>
                     /\ rep'.f.DecryptedEncPart = rep.f.DecryptedEncPart
      ]_vars

\* an ASRep that holds a decrypted part from an earlier call fails to
\* decrypt inside IsValid
C16_Witness ==
    /\ IsValidReturned /\ rep.type = "ASRep"
    /\ out.err = Errorf("Error decrypting EncPart of AS_REP")
    /\ InTrace("decrypt")
    /\ rep.f.DecryptedEncPart # ZeroEncKDCRepPart

----------------------------------------------------------------------------
(* What sendTCP hands up *)

\* the value of the length prefix of a frame: the first four octets of the
\* stream, big-endian (here always below 2^24)
PrefixValue(data) == data[2] * 65536 + data[3] * 256 + data[4]

\* the frame the KDC sends has a length prefix: Read delivered its first octet
FrameStarted(o) == o.stage = "ok" /\ Len(o.data) >= 1

\* C17: whatever a read of the TCP reply delivers, sendTCP hands up the
\* whole payload announced by the length prefix or an error: it does not
\* abort the call, and a payload returned without an error is as long as
\* the prefix says.  Seen through a TCP-only SendToKDC call, which returns
\* what sendTCP returned.
C17_TCPCompletePayloadOrError ==
    ( pc = "returned" /\ TCPOnlyBranch /\ FrameStarted(call.env.tcp[1]) ) =>
        /\ ~ret.panic
        /\ ret.err = Nil => Len(ret.rb) = PrefixValue(call.env.tcp[1].data)

----------------------------------------------------------------------------
(* Number of attempts *)

\* C18: in one SendToKDC call the attempts follow one another (a send
\* function is entered only when the socket of the attempt before is
\* closed) and each transport is used at most once, whatever the UDP and
\* TCP exchanges do.
C18_OneAttemptPerTransport ==
    pc = "returned" =>
        /\ \A n \in 1..Len(netlog) :
              netlog[n].ev = "call" => OpenAfter(netlog, n) = 0
        /\ Attempts("udp") <= 1
        /\ Attempts("tcp") <= 1

----------------------------------------------------------------------------
(* Totality of IsValid *)

\* C19: ASRep.IsValid and TGSRep.IsValid complete and return a verdict and
\* an error for every reply and every request; no call aborts on an index
\* out of range.
C19_IsValidTotal == IsValidReturned => ~out.panic

----------------------------------------------------------------------------
(* Decryption before validation of a TGSRep *)

\* C20: on one TGSRep, under any sequence of Unmarshal, DecryptEncPart and
\* IsValid calls (and no other access to its fields), IsValid answers valid only if a DecryptEncPart call has
\* succeeded since the last successful Unmarshal: a successful Unmarshal
\* empties DecryptedEncPart, a failed DecryptEncPart leaves the object as it
\* was, and IsValid on an empty DecryptedEncPart answers invalid for every
\* request.
C20_ValidOnlyAfterDecrypt ==
    [][ rep.type = "TGSRep" =>
          /\ ( RepCallStep("Unmarshal") /\ out'.err = Nil )
               => rep'.f.DecryptedEncPart = ZeroEncKDCRepPart
          /\ ( RepCallStep("DecryptEncPart") /\ out'.err # Nil ) => rep' = rep
          /\ ( RepCallStep("IsValid") /\ rep.f.DecryptedEncPart = ZeroEncKDCRepPart )
               => ~out'.valid
          /\ ( RepCallStep("IsValid") /\ out'.valid ) => decrypted
      ]_vars

\* a TGSRep that was decoded and then decrypted is found valid against the
\* request it answers
C20_Witness ==
    /\ IsValidReturned /\ rep.type = "TGSRep" /\ out.valid
    /\ decrypted
    /\ rep.f.DecryptedEncPart.Nonce = MaxNonce
    /\ inp.req.ReqBody.Nonce = MaxNonce

====
